---------------------------- MODULE Spec2Model ----------------------------
(***************************************************************************)
(* one-commit: the CommitFlow orchestrator (cli.tsx, kept in src/src/ai.ts *)
(* from line 834 on) over the git wrapper (src/src/git.ts).                *)
(*                                                                         *)
(* Every async handler is a task: a record holding the handler's name, the *)
(* backend call it is suspended on (pc) and the values its closure caught  *)
(* when it was invoked.  One action starts a handler (the operator's key,  *)
(* guarded by the condition under which the component that owns the key is *)
(* rendered) and runs it up to its first await; one action per await       *)
(* completes the pending call, with the call's outcome drawn from the      *)
(* outcomes the backend can produce, and runs the handler up to its next   *)
(* await or its end.  Lists of paths are modelled as sets of paths.        *)
(***************************************************************************)
EXTENDS Integers, Sequences, FiniteSets, TLC

VARIABLES
    stage,              \* useState 'stage'
    error,              \* useState 'error'
    diff,               \* useState 'diff': the files of the GitDiff, or NoDiff
    commitMessage,      \* useState 'commitMessage'
    customMessage,      \* useState 'customMessage'
    availableFiles,     \* useState 'availableFiles': [modified, untracked]
    selectedFilesList,  \* useState 'selectedFilesList'
    stagedFiles,        \* useState 'stagedFiles': files of the GitDiff, or NoDiff
    selectedIndex,      \* FileSelector: cursor
    selectedFiles,      \* FileSelector: checked paths
    showAllNewFiles,    \* FileSelector: the untracked list is expanded
    repo,               \* the repository: path -> status
    tasks,              \* the async handlers in flight, in the order they started
    exitTimer,          \* setTimeout(onExit, 3000) is pending
    exited,             \* process.exit(0) was called (or the process crashed)
    lastEvent,          \* history: the step just taken
    entryRepo,          \* history: the repository when the flow was mounted
    srChoices,          \* history: the choices made on the staged-reset screen
    commits,            \* history: number of commits created
    inputs,             \* history: number of keys the operator has pressed
    call,               \* a function of ai.ts called on its own: name, arguments, result
    app                 \* App and ConfigSetup: what is rendered, the wizard, the settings

vars == <<stage, error, diff, commitMessage, customMessage, availableFiles,
          selectedFilesList, stagedFiles, selectedIndex, selectedFiles, repo,
          tasks, exitTimer, exited, lastEvent, entryRepo, srChoices, commits,
          inputs, showAllNewFiles, call, app>>

uiVars == <<stage, error, diff, commitMessage, customMessage, availableFiles,
            selectedFilesList, stagedFiles>>

pickerVars == <<selectedIndex, selectedFiles, showAllNewFiles>>

\* everything but 'call'
flowVars == <<uiVars, pickerVars, repo, tasks, exitTimer, exited, lastEvent,
              entryRepo, srChoices, commits, inputs>>

----------------------------------------------------------------------------
(* Bounds *)

NumFiles == 2       \* paths of the working tree: 1..NumFiles
MaxTasks == 2       \* handlers that may be in flight together
MaxInputs == 4      \* keys the operator presses in one run
MaxModified == 1    \* modified paths handed to a picker rendered on its own
MaxUntracked == 11  \* untracked paths handed to a picker rendered on its own
MaxTotal == 8       \* getVisibleRange: items in the list
MaxVisible == 6     \* getVisibleRange: rows the terminal can show
MaxSections == 2    \* processDiffContent: file sections of a diff
MaxChanged == 2     \* analyzeChangedFiles: changed paths
MaxResponse == 3    \* generateCommitMessage: pieces of the model's response
MaxStatLines == 2   \* getStagedChanges: lines of git diff --numstat

Files == 1..NumFiles

\* useState<GitDiff | null>(null): no path is 0
NoDiff == {0}

\* a path is clean, modified (tracked, changed, not staged), untracked, or
\* staged; a staged path goes back to modified or to untracked on reset
Statuses == {"clean", "modified", "untracked", "staged_mod", "staged_new"}

\* at entry every staged path is a tracked one
EntryStatuses == Statuses \ {"staged_new"}

\* what the model backend answers: a message or an error
AiMessages == {"feat: add cache"}
AiErrors == {"OpenAI API error: timeout"}

\* what the operator can type into the edit box
EditTexts == {"fix: typo", "   "}

\* message.trim() === ''
IsBlank(m) == m \in {"", "   "}

----------------------------------------------------------------------------
(* The repository, as git.ts reads and writes it *)

StagedOf(r)    == {f \in Files : r[f] \in {"staged_mod", "staged_new"}}
ModifiedOf(r)  == {f \in Files : r[f] = "modified"}
UntrackedOf(r) == {f \in Files : r[f] = "untracked"}

\* git add <files>
GitAdd(r, fs) ==
    [f \in Files |->
        IF f \in fs /\ r[f] = "modified" THEN "staged_mod"
        ELSE IF f \in fs /\ r[f] = "untracked" THEN "staged_new"
        ELSE r[f]]

\* git reset [HEAD]
GitReset(r) ==
    [f \in Files |->
        IF r[f] = "staged_mod" THEN "modified"
        ELSE IF r[f] = "staged_new" THEN "untracked"
        ELSE r[f]]

\* git commit -m
GitCommit(r) ==
    [f \in Files |-> IF r[f] \in {"staged_mod", "staged_new"} THEN "clean" ELSE r[f]]

\* hasChanges(): three queries; any failure is caught and answered false
hasChanges(r, q1, q2, q3) ==
    IF q1 /\ q2 /\ q3
    THEN StagedOf(r) # {} \/ ModifiedOf(r) # {} \/ UntrackedOf(r) # {}
    ELSE FALSE

\* getAllUnstagedFiles()
getAllUnstagedFiles(r) == [modified |-> ModifiedOf(r), untracked |-> UntrackedOf(r)]

\* resetStagedFiles(): rev-parse --verify HEAD, then reset HEAD; if either
\* fails, plain reset; the call fails only if that one fails too
resetStagedFilesOk(head, resetHead, resetPlain) ==
    (head /\ resetHead) \/ resetPlain

----------------------------------------------------------------------------
(* Tasks and events *)

\* h: the handler; pc: the call it awaits; files: the selected files it was
\* given; msg: the message it commits; orig: the error it caught; idx0: the
\* staged set when it started; d: the GitDiff it holds; via: what started it
Task(h, pc, files, msg, orig, idx0, d, via) ==
    [h |-> h, pc |-> pc, files |-> files, msg |-> msg, orig |-> orig,
     idx0 |-> idx0, d |-> d, via |-> via]

\* kind: "input", or the outcome "ok" / "fail" of the backend call fn that
\* handler h (started by via) awaited; orig and idx0 as in the task
Event(kind, fn, h, via, orig, idx0) ==
    [kind |-> kind, fn |-> fn, h |-> h, via |-> via, orig |-> orig, idx0 |-> idx0]

InputEvent(fn) == Event("input", fn, "", "", "", {})

TaskEvent(kind, t) == Event(kind, t.pc, t.h, t.via, t.orig, t.idx0)

Remove(s, i) == [j \in 1..(Len(s) - 1) |-> IF j < i THEN s[j] ELSE s[j + 1]]

Replace(s, i, t) == [s EXCEPT ![i] = t]

Running == ~exited

CanStart == Running /\ Len(tasks) < MaxTasks

\* no function is being called on its own
NoCall == [fn |-> "none"]

\* CommitFlow is what is rendered, from the start
NoApp == [screen |-> "CommitFlow"]

\* a picker that starts with every listed path checked
PickerInitialSelectionAll(files) == files.modified \cup files.untracked

\* FileSelector is mounted with useState(0) and useState(new Set(files.modified))
PickerInitialSelection(files) == files.modified

----------------------------------------------------------------------------

Init ==
    /\ repo \in [Files -> EntryStatuses]
    /\ entryRepo = repo
    /\ stage = "checking"
    /\ error = ""
    /\ diff = NoDiff
    /\ commitMessage = ""
    /\ customMessage = ""
    /\ availableFiles = [modified |-> {}, untracked |-> {}]
    /\ selectedFilesList = {}
    /\ stagedFiles = NoDiff
    /\ selectedIndex = 0
    /\ selectedFiles = {}
    /\ showAllNewFiles = FALSE
    /\ call = NoCall
    /\ app = NoApp
    /\ tasks = <<Task("checkRepository", "isGitRepository", {}, "", "", {}, {}, "mount")>>
    /\ exitTimer = FALSE
    /\ exited = FALSE
    /\ lastEvent = Event("init", "", "", "", "", {})
    /\ srChoices = {}
    /\ commits = 0
    /\ inputs = 0

----------------------------------------------------------------------------
(* React state helpers *)

\* setStage(s): FileSelector is rendered only while stage is 'file-select';
\* it is mounted with a fresh cursor and selection, and its state is dropped
\* when it is unmounted
SetStage(s, files) ==
    /\ stage' = s
    /\ IF s = "file-select"
       THEN IF stage = "file-select"
            THEN UNCHANGED pickerVars
            ELSE /\ selectedIndex' = 0
                 /\ selectedFiles' = PickerInitialSelection(files)
                 /\ showAllNewFiles' = FALSE
       ELSE /\ selectedIndex' = 0
            /\ selectedFiles' = {}
            /\ showAllNewFiles' = FALSE

\* setError(message); setStage('error')
Fail(message) ==
    /\ error' = message
    /\ SetStage("error", availableFiles)

History == <<entryRepo, srChoices>>

\* a step of a handler in flight: no key is pressed
NoKey == UNCHANGED <<inputs, call, app>>

\* the operator presses a key
Key ==
    /\ inputs < MaxInputs
    /\ inputs' = inputs + 1
    /\ UNCHANGED <<call, app>>

----------------------------------------------------------------------------
(* checkRepository *)

CheckIsGitRepository(i) ==
    /\ Running
    /\ NoKey
    /\ tasks[i].h = "checkRepository" /\ tasks[i].pc = "isGitRepository"
    /\ \E isRepo \in BOOLEAN :
        IF isRepo
        THEN /\ tasks' = Replace(tasks, i, [tasks[i] EXCEPT !.pc = "hasChanges"])
             /\ lastEvent' = TaskEvent("ok", tasks[i])
             /\ UNCHANGED <<uiVars, pickerVars>>
        ELSE /\ Fail("Not a git repository")
             /\ tasks' = Remove(tasks, i)
             /\ lastEvent' = TaskEvent("fail", tasks[i])
             /\ UNCHANGED <<diff, commitMessage, customMessage, availableFiles,
                            selectedFilesList, stagedFiles>>
    /\ UNCHANGED <<repo, exitTimer, exited, History, commits>>

CheckHasChanges(i) ==
    /\ Running
    /\ NoKey
    /\ tasks[i].h = "checkRepository" /\ tasks[i].pc = "hasChanges"
    /\ \E q1 \in BOOLEAN, q2 \in BOOLEAN, q3 \in BOOLEAN :
        /\ lastEvent' = TaskEvent(IF q1 /\ q2 /\ q3 THEN "ok" ELSE "fail", tasks[i])
        /\ IF hasChanges(repo, q1, q2, q3)
           THEN /\ tasks' = Replace(tasks, i, [tasks[i] EXCEPT !.pc = "getStagedChanges"])
                /\ UNCHANGED <<uiVars, pickerVars>>
           ELSE /\ SetStage("no-changes", availableFiles)
                /\ tasks' = Remove(tasks, i)
                /\ UNCHANGED <<error, diff, commitMessage, customMessage,
                               availableFiles, selectedFilesList, stagedFiles>>
    /\ UNCHANGED <<repo, exitTimer, exited, History, commits>>

CheckGetStagedChanges(i) ==
    /\ Running
    /\ NoKey
    /\ tasks[i].h = "checkRepository" /\ tasks[i].pc = "getStagedChanges"
    /\ \E ok \in BOOLEAN :
        IF ok
        THEN /\ tasks' = Replace(tasks, i, [tasks[i] EXCEPT
                    !.pc = "getAllUnstagedFiles", !.d = StagedOf(repo)])
             /\ stagedFiles' = IF StagedOf(repo) # {} THEN StagedOf(repo) ELSE stagedFiles
             /\ lastEvent' = TaskEvent("ok", tasks[i])
             /\ UNCHANGED <<stage, error, diff, commitMessage, customMessage,
                            availableFiles, selectedFilesList, pickerVars>>
        ELSE /\ Fail("Failed to get staged changes")
             /\ tasks' = Remove(tasks, i)
             /\ lastEvent' = TaskEvent("fail", tasks[i])
             /\ UNCHANGED <<diff, commitMessage, customMessage, availableFiles,
                            selectedFilesList, stagedFiles>>
    /\ UNCHANGED <<repo, exitTimer, exited, History, commits>>

\* a check that generates from the staged set without asking
CheckBranchSilent(staged, unstaged) ==
    IF staged # {}
    THEN "generating"
    ELSE IF unstaged.modified # {} \/ unstaged.untracked # {}
         THEN "file-select"
         ELSE "no-changes"

\* a check that asks whenever anything is staged
CheckBranchAlwaysAsk(staged, unstaged) ==
    IF staged # {}
    THEN "staged-reset"
    ELSE IF unstaged.modified # {} \/ unstaged.untracked # {}
         THEN "file-select"
         ELSE "no-changes"

\* the branch checkRepository takes once both reads are in
CheckBranch(staged, unstaged) ==
    IF staged # {}
    THEN IF unstaged.modified # {} \/ unstaged.untracked # {}
         THEN "staged-reset"
         ELSE "generating"
    ELSE IF unstaged.modified # {} \/ unstaged.untracked # {}
         THEN "file-select"
         ELSE "no-changes"

CheckGetAllUnstagedFiles(i) ==
    /\ Running
    /\ NoKey
    /\ tasks[i].h = "checkRepository" /\ tasks[i].pc = "getAllUnstagedFiles"
    /\ \E ok \in BOOLEAN :
        IF ok
        THEN LET staged == tasks[i].d
                 unstaged == getAllUnstagedFiles(repo)
                 branch == CheckBranch(staged, unstaged)
             IN  /\ lastEvent' = TaskEvent("ok", tasks[i])
                 /\ SetStage(branch, unstaged)
                 /\ availableFiles' = IF branch \in {"staged-reset", "file-select"}
                                      THEN unstaged ELSE availableFiles
                 /\ diff' = IF branch = "generating" THEN staged ELSE diff
                 /\ tasks' = IF branch = "generating"
                             THEN Replace(tasks, i,
                                    Task("generateCommitMessage", "ai.generateCommitMessage",
                                         {}, "", "", {}, staged, "check"))
                             ELSE Remove(tasks, i)
                 /\ UNCHANGED <<error, commitMessage, customMessage,
                                selectedFilesList, stagedFiles>>
        ELSE /\ Fail("Failed to get unstaged files")
             /\ tasks' = Remove(tasks, i)
             /\ lastEvent' = TaskEvent("fail", tasks[i])
             /\ UNCHANGED <<diff, commitMessage, customMessage, availableFiles,
                            selectedFilesList, stagedFiles>>
    /\ UNCHANGED <<repo, exitTimer, exited, History, commits>>

----------------------------------------------------------------------------
(* generateCommitMessage(diff) *)

GenerateComplete(i) ==
    /\ Running
    /\ NoKey
    /\ tasks[i].h = "generateCommitMessage"
    /\ \/ \E m \in AiMessages :
            /\ commitMessage' = m
            /\ SetStage("review", availableFiles)
            /\ lastEvent' = TaskEvent("ok", tasks[i])
            /\ UNCHANGED error
       \/ \E e \in AiErrors :
            /\ Fail(e)
            /\ lastEvent' = TaskEvent("fail", [tasks[i] EXCEPT !.orig = e])
            /\ UNCHANGED commitMessage
    /\ tasks' = Remove(tasks, i)
    /\ UNCHANGED <<diff, customMessage, availableFiles, selectedFilesList, stagedFiles,
                   repo, exitTimer, exited, History, commits>>

----------------------------------------------------------------------------
(* generateCommitMessageForFiles(selectedFiles) *)

\* setStage('generating'), then await git.stageFiles(selectedFiles)
StartGenerateForFiles(sel, via) ==
    /\ SetStage("generating", availableFiles)
    /\ tasks' = Append(tasks,
            Task("generateCommitMessageForFiles", "stageFiles", sel, "", "",
                 StagedOf(repo), {}, via))

\* the catch block: the error caught is kept and resetStagedFiles is awaited
ToCleanup(i, message) ==
    /\ tasks' = Replace(tasks, i, [tasks[i] EXCEPT !.pc = "cleanup", !.orig = message])
    /\ lastEvent' = TaskEvent("fail", [tasks[i] EXCEPT !.orig = message])

IsForFiles(i, pc) ==
    tasks[i].h = "generateCommitMessageForFiles" /\ tasks[i].pc = pc

ForFilesStageFiles(i) ==
    /\ Running
    /\ NoKey
    /\ IsForFiles(i, "stageFiles")
    /\ \E ok \in BOOLEAN :
        IF ok
        THEN /\ repo' = GitAdd(repo, tasks[i].files)
             /\ tasks' = Replace(tasks, i, [tasks[i] EXCEPT !.pc = "getStagedChanges"])
             /\ lastEvent' = TaskEvent("ok", tasks[i])
        ELSE /\ ToCleanup(i, "Failed to stage files")
             /\ UNCHANGED repo
    /\ UNCHANGED <<uiVars, pickerVars, exitTimer, exited, History, commits>>

ForFilesGetStagedChanges(i) ==
    /\ Running
    /\ NoKey
    /\ IsForFiles(i, "getStagedChanges")
    /\ \E ok \in BOOLEAN :
        IF ok
        THEN /\ tasks' = Replace(tasks, i, [tasks[i] EXCEPT
                    !.pc = "resetStagedFiles", !.d = StagedOf(repo)])
             /\ lastEvent' = TaskEvent("ok", tasks[i])
        ELSE ToCleanup(i, "Failed to get staged changes")
    /\ UNCHANGED <<uiVars, pickerVars, repo, exitTimer, exited, History, commits>>

ForFilesResetStagedFiles(i) ==
    /\ Running
    /\ NoKey
    /\ IsForFiles(i, "resetStagedFiles")
    /\ \E head \in BOOLEAN, resetHead \in BOOLEAN, resetPlain \in BOOLEAN :
        IF resetStagedFilesOk(head, resetHead, resetPlain)
        THEN /\ repo' = GitReset(repo)
             /\ diff' = tasks[i].d
             /\ tasks' = Replace(tasks, i, [tasks[i] EXCEPT !.pc = "ai.generateCommitMessage"])
             /\ lastEvent' = TaskEvent("ok", tasks[i])
        ELSE /\ ToCleanup(i, "Failed to reset staged files")
             /\ UNCHANGED <<repo, diff>>
    /\ UNCHANGED <<stage, error, commitMessage, customMessage, availableFiles,
                   selectedFilesList, stagedFiles, pickerVars, exitTimer, exited,
                   History, commits>>

ForFilesGenerate(i) ==
    /\ Running
    /\ NoKey
    /\ IsForFiles(i, "ai.generateCommitMessage")
    /\ \/ \E m \in AiMessages :
            /\ commitMessage' = m
            /\ SetStage("review", availableFiles)
            /\ tasks' = Remove(tasks, i)
            /\ lastEvent' = TaskEvent("ok", tasks[i])
       \/ \E e \in AiErrors :
            /\ ToCleanup(i, e)
            /\ UNCHANGED <<stage, commitMessage, pickerVars>>
    /\ UNCHANGED <<error, diff, customMessage, availableFiles, selectedFilesList,
                   stagedFiles, repo, exitTimer, exited, History, commits>>

\* a cleanup whose own failure replaces the error first caught
CleanupErrorMasked(orig, resetOk) ==
    IF resetOk THEN orig ELSE "Failed to reset staged files (cleanup)"

\* what setError is given after the cleanup: the error first caught, whether
\* or not the cleanup's own resetStagedFiles threw
CleanupError(orig, resetOk) == orig

ForFilesCleanup(i) ==
    /\ Running
    /\ NoKey
    /\ IsForFiles(i, "cleanup")
    /\ \E head \in BOOLEAN, resetHead \in BOOLEAN, resetPlain \in BOOLEAN :
        LET resetOk == resetStagedFilesOk(head, resetHead, resetPlain)
        IN  /\ repo' = IF resetOk THEN GitReset(repo) ELSE repo
            /\ Fail(CleanupError(tasks[i].orig, resetOk))
            /\ lastEvent' = TaskEvent(IF resetOk THEN "ok" ELSE "fail", tasks[i])
    /\ tasks' = Remove(tasks, i)
    /\ UNCHANGED <<diff, commitMessage, customMessage, availableFiles,
                   selectedFilesList, stagedFiles, exitTimer, exited, History, commits>>

----------------------------------------------------------------------------
(* handleCommitChoice('commit') and handleCustomMessageSubmit(message) *)

\* setStage('committing'); stageFiles(selectedFilesList) if any; commit(message)
StartCommit(h, message) ==
    /\ SetStage("committing", availableFiles)
    /\ tasks' = Append(tasks,
            Task(h, IF selectedFilesList # {} THEN "stageFiles" ELSE "commit",
                 selectedFilesList, message, "", {}, {}, "review"))

IsCommit(i, pc) ==
    /\ tasks[i].h \in {"handleCommitChoice", "handleCustomMessageSubmit"}
    /\ tasks[i].pc = pc

CommitStageFiles(i) ==
    /\ Running
    /\ NoKey
    /\ IsCommit(i, "stageFiles")
    /\ \E ok \in BOOLEAN :
        IF ok
        THEN /\ repo' = GitAdd(repo, tasks[i].files)
             /\ tasks' = Replace(tasks, i, [tasks[i] EXCEPT !.pc = "commit"])
             /\ lastEvent' = TaskEvent("ok", tasks[i])
             /\ UNCHANGED <<uiVars, pickerVars>>
        ELSE /\ Fail("Failed to stage files")
             /\ tasks' = Remove(tasks, i)
             /\ lastEvent' = TaskEvent("fail", tasks[i])
             /\ UNCHANGED <<repo, diff, commitMessage, customMessage, availableFiles,
                            selectedFilesList, stagedFiles>>
    /\ UNCHANGED <<exitTimer, exited, History, commits>>

\* git commit creates a commit only from a non-empty index and message
CommitCommit(i) ==
    /\ Running
    /\ NoKey
    /\ IsCommit(i, "commit")
    /\ \/ /\ StagedOf(repo) # {}
          /\ ~IsBlank(tasks[i].msg)
          /\ repo' = GitCommit(repo)
          /\ commits' = commits + 1
          /\ SetStage("done", availableFiles)
          /\ exitTimer' = TRUE
          /\ lastEvent' = TaskEvent("ok", tasks[i])
          /\ UNCHANGED error
       \/ /\ Fail("Failed to commit")
          /\ lastEvent' = TaskEvent("fail", tasks[i])
          /\ UNCHANGED <<repo, commits, exitTimer>>
    /\ tasks' = Remove(tasks, i)
    /\ UNCHANGED <<diff, commitMessage, customMessage, availableFiles,
                   selectedFilesList, stagedFiles, exited, History>>

----------------------------------------------------------------------------
(* handleStagedResetChoice: the SelectInput of the staged-reset screen *)

\* onExit: process.exit(0)
Exit(fn) ==
    /\ exited' = TRUE
    /\ lastEvent' = InputEvent(fn)
    /\ UNCHANGED <<uiVars, pickerVars, repo, tasks, exitTimer, History, commits>>

StagedResetChooseReset ==
    /\ CanStart
    /\ Key
    /\ stage = "staged-reset"
    /\ tasks' = Append(tasks,
            Task("handleStagedResetChoice", "resetStagedFiles", {}, "", "",
                 {}, {}, "reset"))
    /\ srChoices' = srChoices \cup {"reset"}
    /\ lastEvent' = InputEvent("staged-reset:reset")
    /\ UNCHANGED <<uiVars, pickerVars, repo, exitTimer, exited, entryRepo, commits>>

StagedResetChooseContinue ==
    /\ CanStart
    /\ Key
    /\ stage = "staged-reset"
    /\ tasks' = Append(tasks,
            Task("handleStagedResetChoice", "getStagedChanges", {}, "", "",
                 {}, {}, "continue"))
    /\ srChoices' = srChoices \cup {"continue"}
    /\ lastEvent' = InputEvent("staged-reset:continue")
    /\ UNCHANGED <<uiVars, pickerVars, repo, exitTimer, exited, entryRepo, commits>>

StagedResetChooseCancel ==
    /\ Running
    /\ Key
    /\ stage = "staged-reset"
    /\ Exit("staged-reset:cancel")

IsStagedReset(i, pc) ==
    tasks[i].h = "handleStagedResetChoice" /\ tasks[i].pc = pc

StagedResetReset(i) ==
    /\ Running
    /\ NoKey
    /\ IsStagedReset(i, "resetStagedFiles")
    /\ \E head \in BOOLEAN, resetHead \in BOOLEAN, resetPlain \in BOOLEAN :
        IF resetStagedFilesOk(head, resetHead, resetPlain)
        THEN /\ repo' = GitReset(repo)
             /\ SetStage("file-select", availableFiles)
             /\ lastEvent' = TaskEvent("ok", tasks[i])
             /\ UNCHANGED error
        ELSE /\ Fail("Failed to reset staged files")
             /\ lastEvent' = TaskEvent("fail", tasks[i])
             /\ UNCHANGED repo
    /\ tasks' = Remove(tasks, i)
    /\ UNCHANGED <<diff, commitMessage, customMessage, availableFiles,
                   selectedFilesList, stagedFiles, exitTimer, exited, History, commits>>

\* 'continue' awaits getStagedChanges outside any try: a failure is an
\* unhandled rejection, which the runtime either only reports or turns into
\* a crash of the process
StagedResetContinue(i) ==
    /\ Running
    /\ NoKey
    /\ IsStagedReset(i, "getStagedChanges")
    /\ \/ /\ diff' = StagedOf(repo)
          /\ SetStage("generating", availableFiles)
          /\ tasks' = Replace(tasks, i,
                Task("generateCommitMessage", "ai.generateCommitMessage",
                     {}, "", "", {}, StagedOf(repo), "continue"))
          /\ lastEvent' = TaskEvent("ok", tasks[i])
          /\ UNCHANGED exited
       \/ /\ \E crash \in BOOLEAN : exited' = crash
          /\ tasks' = Remove(tasks, i)
          /\ lastEvent' = TaskEvent("fail", tasks[i])
          /\ UNCHANGED <<stage, diff, pickerVars>>
    /\ UNCHANGED <<error, commitMessage, customMessage, availableFiles,
                   selectedFilesList, stagedFiles, repo, exitTimer, History, commits>>

----------------------------------------------------------------------------
(* handleCommitChoice: the SelectInput of the review screen *)

ReviewCommit ==
    /\ CanStart
    /\ Key
    /\ stage = "review"
    /\ StartCommit("handleCommitChoice", commitMessage)
    /\ lastEvent' = InputEvent("review:commit")
    /\ UNCHANGED <<error, diff, commitMessage, customMessage, availableFiles,
                   selectedFilesList, stagedFiles, repo, exitTimer, exited,
                   History, commits>>

ReviewEdit ==
    /\ Running
    /\ Key
    /\ stage = "review"
    /\ customMessage' = commitMessage
    /\ lastEvent' = InputEvent("review:edit")
    /\ UNCHANGED <<stage, error, diff, commitMessage, availableFiles,
                   selectedFilesList, stagedFiles, pickerVars, repo, tasks,
                   exitTimer, exited, History, commits>>

\* regenerate: generateCommitMessageForFiles(selectedFilesList) when files
\* were selected, else generateCommitMessage(diff)
Regenerate ==
    IF selectedFilesList # {}
    THEN StartGenerateForFiles(selectedFilesList, "regenerate")
    ELSE IF diff # NoDiff
         THEN /\ SetStage("generating", availableFiles)
              /\ tasks' = Append(tasks,
                    Task("generateCommitMessage", "ai.generateCommitMessage",
                         {}, "", "", {}, diff, "regenerate"))
         ELSE UNCHANGED <<stage, pickerVars, tasks>>

ReviewRegenerate ==
    /\ CanStart
    /\ Key
    /\ stage = "review"
    /\ Regenerate
    /\ lastEvent' = InputEvent("review:regenerate")
    /\ UNCHANGED <<error, diff, commitMessage, customMessage, availableFiles,
                   selectedFilesList, stagedFiles, repo, exitTimer, exited,
                   History, commits>>

ReviewCancel ==
    /\ Running
    /\ Key
    /\ stage = "review"
    /\ Exit("review:cancel")

----------------------------------------------------------------------------
(* The edit box: rendered whenever customMessage !== '' *)

EditBoxMounted == customMessage # ""

EditChange ==
    /\ Running
    /\ Key
    /\ EditBoxMounted
    /\ \E text \in EditTexts \ {customMessage} : customMessage' = text
    /\ lastEvent' = InputEvent("key")
    /\ UNCHANGED <<stage, error, diff, commitMessage, availableFiles,
                   selectedFilesList, stagedFiles, pickerVars, repo, tasks,
                   exitTimer, exited, History, commits>>

\* handleCustomMessageSubmit(customMessage)
EditSubmit ==
    /\ Running
    /\ Key
    /\ EditBoxMounted
    /\ IF IsBlank(customMessage)
       THEN /\ lastEvent' = InputEvent("edit:submit-blank")
            /\ UNCHANGED <<stage, pickerVars, tasks>>
       ELSE /\ CanStart
            /\ StartCommit("handleCustomMessageSubmit", customMessage)
            /\ lastEvent' = InputEvent("edit:submit")
    /\ UNCHANGED <<error, diff, commitMessage, customMessage, availableFiles,
                   selectedFilesList, stagedFiles, repo, exitTimer, exited,
                   History, commits>>

----------------------------------------------------------------------------
(* FileSelector: rendered while stage === 'file-select' *)

RECURSIVE SortedSeq(_)
SortedSeq(S) ==
    IF S = {} THEN <<>>
    ELSE LET m == CHOOSE x \in S : \A y \in S : x <= y
         IN  <<m>> \o SortedSeq(S \ {m})

\* files.untracked.slice(0, 10)
NewFilesShown == 10

\* allFiles[selectedIndex] when selectedIndex is not an index of allFiles
Undefined == 0

\* visibleNewFiles = showAllNewFiles ? files.untracked : files.untracked.slice(0, 10)
visibleNewFiles ==
    LET untracked == SortedSeq(availableFiles.untracked)
    IN  IF showAllNewFiles \/ Len(untracked) <= NewFilesShown
        THEN untracked
        ELSE SubSeq(untracked, 1, NewFilesShown)

\* allFiles = [...files.modified, ...visibleNewFiles]
allFiles == SortedSeq(availableFiles.modified) \o visibleNewFiles

PickerMounted == Running /\ stage = "file-select"

PickerOnly ==
    UNCHANGED <<uiVars, repo, tasks, exitTimer, exited, History, commits>>

\* key.upArrow && selectedIndex > 0
PickerUp ==
    /\ PickerMounted
    /\ Key
    /\ selectedIndex > 0
    /\ selectedIndex' = selectedIndex - 1
    /\ lastEvent' = InputEvent("key:up")
    /\ UNCHANGED <<selectedFiles, showAllNewFiles>>
    /\ PickerOnly

\* key.downArrow && selectedIndex < allFiles.length - 1
PickerDown ==
    /\ PickerMounted
    /\ Key
    /\ selectedIndex < Len(allFiles) - 1
    /\ selectedIndex' = selectedIndex + 1
    /\ lastEvent' = InputEvent("key:down")
    /\ UNCHANGED <<selectedFiles, showAllNewFiles>>
    /\ PickerOnly

\* Ctrl+A
PickerJumpStart ==
    /\ PickerMounted
    /\ Key
    /\ selectedIndex' = 0
    /\ lastEvent' = InputEvent("key:start")
    /\ UNCHANGED <<selectedFiles, showAllNewFiles>>
    /\ PickerOnly

\* Ctrl+E
PickerJumpEnd ==
    /\ PickerMounted
    /\ Key
    /\ selectedIndex' = Len(allFiles) - 1
    /\ lastEvent' = InputEvent("key:end")
    /\ UNCHANGED <<selectedFiles, showAllNewFiles>>
    /\ PickerOnly

\* space: the path under the cursor (undefined when the cursor is past the
\* list) is added to or removed from the checked set
PickerToggle ==
    /\ PickerMounted
    /\ Key
    /\ LET file == IF selectedIndex + 1 \in DOMAIN allFiles
                   THEN allFiles[selectedIndex + 1]
                   ELSE Undefined
       IN  selectedFiles' = IF file \in selectedFiles
                            THEN selectedFiles \ {file}
                            ELSE selectedFiles \cup {file}
    /\ lastEvent' = InputEvent("key:toggle")
    /\ UNCHANGED <<selectedIndex, showAllNewFiles>>
    /\ PickerOnly

\* 'a'
PickerSelectAll ==
    /\ PickerMounted
    /\ Key
    /\ selectedFiles' = availableFiles.modified \cup availableFiles.untracked
    /\ lastEvent' = InputEvent("key:all")
    /\ UNCHANGED <<selectedIndex, showAllNewFiles>>
    /\ PickerOnly

\* 'd'
PickerDeselectAll ==
    /\ PickerMounted
    /\ Key
    /\ selectedFiles' = {}
    /\ lastEvent' = InputEvent("key:none")
    /\ UNCHANGED <<selectedIndex, showAllNewFiles>>
    /\ PickerOnly

\* 'm': only when more than 10 paths are untracked
PickerShowMore ==
    /\ PickerMounted
    /\ Key
    /\ showAllNewFiles' = IF Cardinality(availableFiles.untracked) > NewFilesShown
                          THEN ~showAllNewFiles
                          ELSE showAllNewFiles
    /\ lastEvent' = InputEvent("key:more")
    /\ UNCHANGED <<selectedIndex, selectedFiles>>
    /\ PickerOnly

\* a picker that submits whatever is checked, nothing included
PickerCanSubmitAny(sel) == Cardinality(sel) >= 0

\* selectedFiles.size > 0
PickerCanSubmit(sel) == Cardinality(sel) > 0

\* return: onSubmit(Array.from(selectedFiles)) when the selection is not
\* empty, which is handleFileSelection
PickerSubmit ==
    /\ PickerMounted
    /\ Key
    /\ lastEvent' = InputEvent("picker:return")
    /\ IF PickerCanSubmit(selectedFiles)
       THEN /\ CanStart
            /\ selectedFilesList' = selectedFiles
            /\ StartGenerateForFiles(selectedFiles, "picker")
       ELSE UNCHANGED <<stage, pickerVars, tasks, selectedFilesList>>
    /\ UNCHANGED <<error, diff, commitMessage, customMessage, availableFiles,
                   stagedFiles, repo, exitTimer, exited, History, commits>>

PickerCancel ==
    /\ PickerMounted
    /\ Key
    /\ Exit("picker:cancel")

----------------------------------------------------------------------------

\* setTimeout(onExit, 3000) after a commit
ExitTimerFires ==
    /\ Running
    /\ NoKey
    /\ exitTimer
    /\ Exit("timer")

Next ==
    \/ \E i \in DOMAIN tasks : CheckIsGitRepository(i)
    \/ \E i \in DOMAIN tasks : CheckHasChanges(i)
    \/ \E i \in DOMAIN tasks : CheckGetStagedChanges(i)
    \/ \E i \in DOMAIN tasks : CheckGetAllUnstagedFiles(i)
    \/ \E i \in DOMAIN tasks : GenerateComplete(i)
    \/ \E i \in DOMAIN tasks : ForFilesStageFiles(i)
    \/ \E i \in DOMAIN tasks : ForFilesGetStagedChanges(i)
    \/ \E i \in DOMAIN tasks : ForFilesResetStagedFiles(i)
    \/ \E i \in DOMAIN tasks : ForFilesGenerate(i)
    \/ \E i \in DOMAIN tasks : ForFilesCleanup(i)
    \/ \E i \in DOMAIN tasks : CommitStageFiles(i)
    \/ \E i \in DOMAIN tasks : CommitCommit(i)
    \/ \E i \in DOMAIN tasks : StagedResetReset(i)
    \/ \E i \in DOMAIN tasks : StagedResetContinue(i)
    \/ StagedResetChooseReset
    \/ StagedResetChooseContinue
    \/ StagedResetChooseCancel
    \/ ReviewCommit
    \/ ReviewEdit
    \/ ReviewRegenerate
    \/ ReviewCancel
    \/ EditChange
    \/ EditSubmit
    \/ PickerUp
    \/ PickerDown
    \/ PickerJumpStart
    \/ PickerJumpEnd
    \/ PickerToggle
    \/ PickerSelectAll
    \/ PickerDeselectAll
    \/ PickerShowMore
    \/ PickerSubmit
    \/ PickerCancel
    \/ ExitTimerFires

Spec == Init /\ [][Next]_vars

----------------------------------------------------------------------------
(* FileSelector rendered on its own, with lists long enough for the        *)
(* untracked list to be collapsed                                          *)

PickerInit ==
    /\ \E m \in 0..MaxModified, u \in 0..MaxUntracked :
        /\ m + u > 0
        /\ availableFiles = [modified |-> 1..m, untracked |-> (m + 1)..(m + u)]
    /\ stage = "file-select"
    /\ selectedIndex = 0
    /\ selectedFiles = PickerInitialSelection(availableFiles)
    /\ showAllNewFiles = FALSE
    /\ repo = [f \in Files |-> "clean"]
    /\ entryRepo = repo
    /\ error = ""
    /\ diff = NoDiff
    /\ commitMessage = ""
    /\ customMessage = ""
    /\ selectedFilesList = {}
    /\ stagedFiles = NoDiff
    /\ tasks = <<>>
    /\ exitTimer = FALSE
    /\ exited = FALSE
    /\ lastEvent = Event("init", "", "", "", "", {})
    /\ srChoices = {}
    /\ commits = 0
    /\ inputs = 0
    /\ call = NoCall
    /\ app = NoApp

PickerNext ==
    \/ PickerUp
    \/ PickerDown
    \/ PickerJumpStart
    \/ PickerJumpEnd
    \/ PickerToggle
    \/ PickerSelectAll
    \/ PickerDeselectAll
    \/ PickerShowMore
    \/ PickerSubmit
    \/ PickerCancel

PickerSpec == PickerInit /\ [][PickerNext]_vars

----------------------------------------------------------------------------
(* The functions of ai.ts and cli.tsx that the flow calls, each called on   *)
(* its own: Init draws the arguments, one action per function applies it.  *)

\* the application is not rendered
NotMounted ==
    /\ stage = "checking"
    /\ error = ""
    /\ diff = NoDiff
    /\ commitMessage = ""
    /\ customMessage = ""
    /\ availableFiles = [modified |-> {}, untracked |-> {}]
    /\ selectedFilesList = {}
    /\ stagedFiles = NoDiff
    /\ selectedIndex = 0
    /\ selectedFiles = {}
    /\ showAllNewFiles = FALSE
    /\ repo = [f \in Files |-> "clean"]
    /\ entryRepo = repo
    /\ tasks = <<>>
    /\ exitTimer = FALSE
    /\ exited = FALSE
    /\ lastEvent = Event("init", "", "", "", "", {})
    /\ srChoices = {}
    /\ commits = 0
    /\ inputs = 0

\* a call of fn with arguments args that has not returned yet
Called(fn, args) == [fn |-> fn, args |-> args, done |-> FALSE, ret |-> "pending"]

\* the call returns ret
Return(ret) ==
    /\ call' = [call EXCEPT !.done = TRUE, !.ret = ret]
    /\ UNCHANGED <<flowVars, app>>

Pending(fn) == call.fn = fn /\ ~call.done

Returned(fn) == call.fn = fn /\ call.done

Max(a, b) == IF a >= b THEN a ELSE b

Min(a, b) == IF a <= b THEN a ELSE b

\* a window that is not clamped to the end of the list
getVisibleRangeUnclamped(selectedIdx, totalFiles, maxVisible) ==
    IF totalFiles <= maxVisible
    THEN [start |-> 0, end |-> totalFiles]
    ELSE LET halfWindow == maxVisible \div 2
             start0 == Max(0, selectedIdx - halfWindow)
         IN  [start |-> start0, end |-> start0 + maxVisible]

\* getVisibleRange(selectedIndex, totalFiles, maxVisible)
getVisibleRange(selectedIdx, totalFiles, maxVisible) ==
    IF totalFiles <= maxVisible
    THEN [start |-> 0, end |-> totalFiles]
    ELSE LET halfWindow == maxVisible \div 2
             start0 == Max(0, selectedIdx - halfWindow)
             end == Min(totalFiles, start0 + maxVisible)
             start == IF end - start0 < maxVisible
                      THEN Max(0, end - maxVisible)
                      ELSE start0
         IN  [start |-> start, end |-> end]

RangeArgs ==
    {a \in [selectedIndex : 0..(MaxTotal - 1), totalFiles : 1..MaxTotal,
             maxVisible : 1..MaxVisible] : a.selectedIndex < a.totalFiles}

CallGetVisibleRange ==
    /\ Pending("getVisibleRange")
    /\ Return(getVisibleRange(call.args.selectedIndex, call.args.totalFiles,
                              call.args.maxVisible))

----------------------------------------------------------------------------
(* processDiffContent.  A diff is a sequence of file sections as           *)
(* split(/(?=^diff --git)/m) yields them: a section is 'text' lines, the   *)
(* first one the 'diff --git a/f b/f' header when the section is headed    *)
(* (only the text before the first header is not), the others 'width'      *)
(* characters each, all additions ('+') or all context (' ').  Every       *)
(* section but the last ends with a newline (execa strips the last one).   *)
(* Strings are measured, not stored: the result holds the length of the    *)
(* content and, per section, what was kept of it.                          *)

MAX_TOKENS == 50000
MAX_LINES_PER_FILE == 2000
FALLBACK_LINES_PER_FILE == 20
CharsPerToken == 4
HeaderLinesKept == 5

\* 'diff --git a/f b/f'
HeaderLen == 18
\* extractFileName: 'f', or 'unknown file' when the section has no header
FileNameLen == 1
UnknownFileLen == 12
\* 'File: ' + ' (+' + ' -' + ' lines)'
SummaryFrameLen == 18
\* '... (diff truncated)'
TruncatedMarkLen == 20

LineCounts == {1, 3, 30, 2000, 2001}
LineWidths == {1, 7000, 9000}

Sections == [headed : BOOLEAN, text : LineCounts, width : LineWidths, kind : {"+", " "}]

RECURSIVE SeqsUpTo(_, _)
SeqsUpTo(S, n) ==
    IF n = 0 THEN {<<>>}
    ELSE LET shorter == SeqsUpTo(S, n - 1)
         IN  shorter \cup {Append(q, x) : q \in {r \in shorter : Len(r) = n - 1}, x \in S}

DiffInputs ==
    {d \in SeqsUpTo(Sections, MaxSections) : \A i \in 2..Len(d) : d[i].headed}

\* estimateTokens: Math.ceil(text.length / 4)
estimateTokens(length) == (length + CharsPerToken - 1) \div CharsPerToken

RECURSIVE Digits(_)
Digits(n) == IF n < 10 THEN 1 ELSE 1 + Digits(n \div 10)

RECURSIVE SumSeq(_)
SumSeq(q) == IF q = <<>> THEN 0 ELSE Head(q) + SumSeq(Tail(q))

\* section.split('\n').length
SplitCount(d, i) == d[i].text + (IF i < Len(d) THEN 1 ELSE 0)

\* the first k text lines of a section, joined by '\n'
TextLen(sec, k) ==
    IF sec.headed
    THEN HeaderLen + (k - 1) * sec.width + (k - 1)
    ELSE k * sec.width + (k - 1)

\* section.length
SectionLen(d, i) == TextLen(d[i], d[i].text) + (IF i < Len(d) THEN 1 ELSE 0)

\* a cap that also takes a section of exactly MAX_LINES_PER_FILE lines
CappedFromLimit(d, i) == SplitCount(d, i) >= MAX_LINES_PER_FILE

\* first pass: lines.slice(0, MAX_LINES_PER_FILE).join('\n') when the section
\* has more than MAX_LINES_PER_FILE lines
Capped(d, i) == SplitCount(d, i) > MAX_LINES_PER_FILE

FirstPass(d, i) ==
    IF Capped(d, i)
    THEN [section |-> i, form |-> "lines", lines |-> MAX_LINES_PER_FILE,
          len |-> TextLen(d[i], MAX_LINES_PER_FILE)]
    ELSE [section |-> i, form |-> "lines", lines |-> SplitCount(d, i),
          len |-> SectionLen(d, i)]

\* a summary that keeps every '+', '-' and '@@' line of the section
SummaryWholeDiff(d, i) ==
    LET sec == d[i]
        body == sec.text - (IF sec.headed THEN 1 ELSE 0)
        additionsCount == IF sec.kind = "+" THEN body ELSE 0
        deletionsCount == 0
        fileName == IF sec.headed THEN FileNameLen ELSE UnknownFileLen
        first == SummaryFrameLen + fileName + Digits(additionsCount)
                    + Digits(deletionsCount)
        headerLines == Min(HeaderLinesKept, sec.text)
        diffPreview == additionsCount
        count == 1 + headerLines + diffPreview
    IN  [section |-> i, form |-> "summary", lines |-> count,
         len |-> first + TextLen(sec, headerLines) - (headerLines - 1)
                    + diffPreview * sec.width + (count - 1)]

\* second pass: 'File: name (+a -d lines)', the first 5 lines, the first 20
\* lines that start with '+', '-' or '@@', and the mark when 20 were taken;
\* empty lines are filtered out, the rest joined by '\n'
Summary(d, i) ==
    LET sec == d[i]
        body == sec.text - (IF sec.headed THEN 1 ELSE 0)
        additionsCount == IF sec.kind = "+" THEN body ELSE 0
        deletionsCount == 0
        fileName == IF sec.headed THEN FileNameLen ELSE UnknownFileLen
        first == SummaryFrameLen + fileName + Digits(additionsCount)
                    + Digits(deletionsCount)
        headerLines == Min(HeaderLinesKept, sec.text)
        diffPreview == Min(FALLBACK_LINES_PER_FILE, additionsCount)
        mark == IF diffPreview >= FALLBACK_LINES_PER_FILE THEN 1 ELSE 0
        count == 1 + headerLines + diffPreview + mark
    IN  [section |-> i, form |-> "summary", lines |-> count,
         len |-> first + TextLen(sec, headerLines) - (headerLines - 1)
                    + diffPreview * sec.width + mark * TruncatedMarkLen
                    + (count - 1)]

\* parts.join(sep)
Joined(parts, sepLen) ==
    SumSeq([i \in DOMAIN parts |-> parts[i].len])
        + (IF Len(parts) = 0 THEN 0 ELSE (Len(parts) - 1) * sepLen)

\* a final fallback that leaves the content as long as it is
HardCutMissing(length) == length

\* combinedContent.slice(0, MAX_TOKENS * 4)
HardCut(length) == Min(length, MAX_TOKENS * CharsPerToken)

processDiffContent(d) ==
    IF Len(d) = 0
    THEN [content |-> [len |-> 0, parts |-> <<>>, sep |-> 0, cut |-> FALSE],
          wasTruncated |-> FALSE, warnings |-> <<>>]
    ELSE
    LET first == [i \in DOMAIN d |-> FirstPass(d, i)]
        capped == {i \in DOMAIN d : Capped(d, i)}
        w1 == [j \in 1..Cardinality(capped) |->
                 [kind |-> "file",
                  section |-> CHOOSE i \in capped :
                                 Cardinality({k \in capped : k < i}) = j - 1]]
        len1 == Joined(first, 1)
        second == [i \in DOMAIN d |-> Summary(d, i)]
        len2 == Joined(second, 2)
    IN  IF estimateTokens(len1) <= MAX_TOKENS
        THEN [content |-> [len |-> len1, parts |-> first, sep |-> 1, cut |-> FALSE],
              wasTruncated |-> capped # {}, warnings |-> w1]
        ELSE IF estimateTokens(len2) <= MAX_TOKENS
        THEN [content |-> [len |-> len2, parts |-> second, sep |-> 2, cut |-> FALSE],
              wasTruncated |-> TRUE,
              warnings |-> Append(w1, [kind |-> "compress", section |-> 0])]
        ELSE [content |-> [len |-> HardCut(len2), parts |-> second,
                           sep |-> 2, cut |-> TRUE],
              wasTruncated |-> TRUE,
              warnings |-> w1 \o <<[kind |-> "compress", section |-> 0],
                                   [kind |-> "cutoff", section |-> 0]>>]

CallProcessDiffContent ==
    /\ Pending("processDiffContent")
    /\ Return(processDiffContent(call.args))

----------------------------------------------------------------------------
(* analyzeChangedFiles.  A path is what the six patterns read of it: how   *)
(* it ends ('.test.ts', '.ts', '.md', '.css', '.yml', or none of the       *)
(* endings a pattern names, such as '.json'), whether it has a '/tests/'   *)
(* or a '/docs/' directory in it, and whether it has one of the            *)
(* configuration names (package.json, tsconfig, webpack, ...) in it.  The  *)
(* endings the patterns name exclude one another, '.test.ts' and '.ts'     *)
(* apart.  suggestedScope reads other directory names ('/api/', '/ui/',    *)
(* ...) and takes no part in the categories or the type; it is left out.   *)

Endings == {"test", "source", "doc", "style", "build", "other"}

Paths == [ending : Endings, inTests : BOOLEAN, inDocs : BOOLEAN, configName : BOOLEAN]

RECURSIVE SetsUpTo(_, _)
SetsUpTo(S, n) ==
    IF n = 0 THEN {{}}
    ELSE LET smaller == SetsUpTo(S, n - 1)
         IN  smaller \cup {q \cup {x} : q \in smaller, x \in S}

ChangedFiles == SetsUpTo(Paths, MaxChanged)

\* /\.(test|spec)\.(js|ts|jsx|tsx)$|\/tests?\//
IsTest(f) == f.ending = "test" \/ f.inTests
\* /\.(md|txt|rst)$|\/docs?\//i
IsDoc(f) == f.ending = "doc" \/ f.inDocs
\* /(package\.json|tsconfig|webpack|babel|eslint|prettier|vite|rollup)/
IsConfig(f) == f.configName
\* /\.(js|ts|jsx|tsx|py|java|cpp|c|go|rs|php)$/
IsSourceEnding(f) == f.ending \in {"source", "test"}
\* /\.(css|scss|sass|less|styl)$/
IsStyle(f) == f.ending = "style"
\* /(dockerfile|makefile|\.yml|\.yaml|\.toml|\.ini)$/i
IsBuild(f) == f.ending = "build"

\* files.filter(f => /\.(js|...)$/.test(f) && !testFiles.includes(f))
SourceFiles(files) == {f \in files : IsSourceEnding(f) /\ ~IsTest(f)}

analyzeChangedFiles(files) ==
    LET testFiles == {f \in files : IsTest(f)}
        docFiles == {f \in files : IsDoc(f)}
        configFiles == {f \in files : IsConfig(f)}
        sourceFiles == SourceFiles(files)
        styleFiles == {f \in files : IsStyle(f)}
        buildFiles == {f \in files : IsBuild(f)}
        all == <<[name |-> "Tests", files |-> testFiles],
                 [name |-> "Documentation", files |-> docFiles],
                 [name |-> "Configuration", files |-> configFiles],
                 [name |-> "Source Code", files |-> sourceFiles],
                 [name |-> "Styles", files |-> styleFiles],
                 [name |-> "Build/Deploy", files |-> buildFiles]>>
        categories == SelectSeq(all, LAMBDA c : c.files # {})
        suggestedType ==
            IF testFiles # {} /\ sourceFiles = {} THEN "test"
            ELSE IF docFiles # {} /\ sourceFiles = {} THEN "docs"
            ELSE IF configFiles # {} /\ sourceFiles = {} THEN "chore"
            ELSE IF styleFiles # {} /\ sourceFiles = {} THEN "style"
            ELSE IF buildFiles # {} /\ sourceFiles = {} THEN "ci"
            ELSE "feat"
        changePattern ==
            IF Len(categories) = 1
            THEN IF categories[1].name = "Tests" THEN "test additions/updates"
                 ELSE IF categories[1].name = "Documentation" THEN "documentation updates"
                 ELSE IF categories[1].name = "Configuration" THEN "configuration changes"
                 ELSE IF categories[1].name = "Source Code" THEN "source code modifications"
                 ELSE "mixed changes"
            ELSE IF testFiles # {} /\ sourceFiles # {} THEN "feature with tests"
            ELSE IF configFiles # {} /\ sourceFiles = {} THEN "configuration only"
            ELSE "mixed changes"
    IN  [categories |-> categories, suggestedType |-> suggestedType,
         changePattern |-> changePattern]

CallAnalyzeChangedFiles ==
    /\ Pending("analyzeChangedFiles")
    /\ Return(analyzeChangedFiles(call.args))

----------------------------------------------------------------------------
(* getConfig and generateCommitMessage.  A text is a sequence of pieces: a *)
(* blank (any white space), a visible character, or one of the two tags.   *)

\* config.get(key) of a key never set, process.env of a variable not set
NotSet == "undefined"

\* !value
Falsy(value) == value \in {NotSet, ""}

\* a || b
OrElse(a, b) == IF Falsy(a) THEN b ELSE a

StoredKeys == {NotSet, "", "sk-stored"}
EnvKeys == {NotSet, "", "sk-env"}

StoredUrls == {NotSet, "https://proxy.example/v1"}
EnvUrls == {NotSet, "https://env.example/v1"}

ConfigKeys == {"apiKey", "baseUrl", "model", "language"}

\* the settings store: what the operator has set, NotSet for the rest
Stores ==
    {[apiKey |-> k, baseUrl |-> u, model |-> NotSet, language |-> NotSet] :
        k \in StoredKeys, u \in StoredUrls}

Envs == {[OPENAI_API_KEY |-> k, OPENAI_BASE_URL |-> u] : k \in EnvKeys, u \in EnvUrls}

\* new Conf({defaults: {baseUrl, model}})
ConfDefaults ==
    [apiKey |-> NotSet, baseUrl |-> "https://api.openai.com/v1",
     model |-> "gpt-4o-mini", language |-> NotSet]

\* config.get(key): the value set, or the default of the store
ConfGet(store, key) == IF store[key] # NotSet THEN store[key] ELSE ConfDefaults[key]

getConfig(store, env) ==
    [apiKey |-> OrElse(ConfGet(store, "apiKey"), env.OPENAI_API_KEY),
     baseUrl |-> OrElse(OrElse(ConfGet(store, "baseUrl"), env.OPENAI_BASE_URL),
                        "https://api.openai.com/v1"),
     model |-> OrElse(ConfGet(store, "model"), "gpt-4o-mini"),
     language |-> OrElse(ConfGet(store, "language"), "en")]

CallGetConfig ==
    /\ Pending("getConfig")
    /\ Return(getConfig(call.args.store, call.args.env))

\* what setConfig is handed: a field is absent (NotSet) or present
Updates ==
    [apiKey : {NotSet, "", "sk-new"}, baseUrl : {NotSet, "", "https://new.example/v1"},
     model : {NotSet, "gpt-4o"}, language : {NotSet, "zh"}]

\* if (updates.key) config.set(key, updates.key), for each of the four keys
setConfig(store, updates) ==
    [key \in ConfigKeys |-> IF Falsy(updates[key]) THEN store[key] ELSE updates[key]]

CallSetConfig ==
    /\ Pending("setConfig")
    /\ Return(setConfig(call.args.store, call.args.updates))

\* hasValidConfig(): !!getConfig().apiKey
hasValidConfig(store, env) == ~Falsy(getConfig(store, env).apiKey)

\* a check that takes the empty key for a credential
MissingKeyOnlyWhenNotSet(config) == config.apiKey = NotSet

\* !config.apiKey
MissingKey(config) == Falsy(config.apiKey)

Pieces == {" ", "a", "<result>", "</result>"}

Texts == SeqsUpTo(Pieces, MaxResponse)

\* what openai.chat.completions.create does: it throws, it answers without
\* choices or content, or it answers a text
Backends ==
    {[kind |-> "throws", text |-> <<>>], [kind |-> "no content", text |-> <<>>]}
        \cup {[kind |-> "text", text |-> t] : t \in Texts}

\* the diffs handed to generate: one small file, and one file over the cap
GenerateDiffs ==
    {d \in DiffInputs : /\ Len(d) = 1
                        /\ d[1].headed /\ d[1].kind = "+" /\ d[1].width = 1
                        /\ d[1].text \in {3, MAX_LINES_PER_FILE + 1}}

GenerateArgs ==
    [store : Stores, env : Envs, diff : GenerateDiffs, recentCommits : {"ok", "throws"},
     backend : Backends]

\* String.prototype.trim
RECURSIVE TrimLeft(_)
TrimLeft(t) == IF t # <<>> /\ Head(t) = " " THEN TrimLeft(Tail(t)) ELSE t

RECURSIVE TrimRight(_)
TrimRight(t) ==
    IF t # <<>> /\ t[Len(t)] = " " THEN TrimRight(SubSeq(t, 1, Len(t) - 1)) ELSE t

Trim(t) == TrimRight(TrimLeft(t))

\* the first index from 'from' on at which t holds piece, or 0
RECURSIVE IndexOf(_, _, _)
IndexOf(t, piece, from) ==
    IF from > Len(t) THEN 0
    ELSE IF t[from] = piece THEN from
    ELSE IndexOf(t, piece, from + 1)

\* /<result>([\s\S]*)<\/result>/: the group runs to the last closing tag
ResultMatchGreedy(t) ==
    LET open == IndexOf(t, "<result>", 1)
        closes == {j \in DOMAIN t : j > open /\ t[j] = "</result>"}
    IN  IF open = 0 \/ closes = {}
        THEN [found |-> FALSE, group |-> <<>>]
        ELSE [found |-> TRUE,
              group |-> SubSeq(t, open + 1,
                               (CHOOSE j \in closes : \A k \in closes : k <= j) - 1)]

\* rawMessage.match(/<result>([\s\S]*?)<\/result>/): from the first opening
\* tag that has a closing tag after it, up to the nearest closing tag
ResultMatch(t) ==
    LET open == IndexOf(t, "<result>", 1)
        close == IF open = 0 THEN 0 ELSE IndexOf(t, "</result>", open + 1)
    IN  IF open = 0 \/ close = 0
        THEN [found |-> FALSE, group |-> <<>>]
        ELSE [found |-> TRUE, group |-> SubSeq(t, open + 1, close - 1)]

Thrown(message, promptBuilt, requests) ==
    [outcome |-> "throw", error |-> message, message |-> <<>>, warnings |-> <<>>,
     promptBuilt |-> promptBuilt, requests |-> requests]

generateCommitMessage(a) ==
    LET config == getConfig(a.store, a.env)
        warnings == processDiffContent(a.diff).warnings
        rawMessage == Trim(a.backend.text)
        resultMatch == ResultMatch(rawMessage)
    IN  IF MissingKey(config)
        THEN Thrown("OpenAI API key not configured. Please run with --config to set it up.",
                    FALSE, 0)
        ELSE IF a.recentCommits = "throws"
        THEN Thrown("git log failed", FALSE, 0)
        ELSE IF a.backend.kind = "throws"
        THEN Thrown("OpenAI API error: backend", TRUE, 1)
        ELSE IF a.backend.kind = "no content" \/ rawMessage = <<>>
        THEN Thrown("OpenAI API error: Failed to generate commit message", TRUE, 1)
        ELSE [outcome |-> "return", error |-> "",
              message |-> IF resultMatch.found THEN Trim(resultMatch.group)
                          ELSE rawMessage,
              warnings |-> warnings, promptBuilt |-> TRUE, requests |-> 1]

CallGenerateCommitMessage ==
    /\ Pending("generateCommitMessage")
    /\ Return(generateCommitMessage(call.args))

----------------------------------------------------------------------------
(* getStagedChanges: the totals read from git diff --cached --numstat.  A  *)
(* line is the two fields before the path; a field is '-' (binary file) or *)
(* a decimal number, a sequence of digit characters.                       *)

DigitChars == {"3", "5"}

StatFields == {<<"-">>} \cup (SeqsUpTo(DigitChars, 2) \ {<<>>})

StatLines == [add : StatFields, del : StatFields]

StatInputs == SeqsUpTo(StatLines, MaxStatLines)

DigitValue(c) == IF c = "3" THEN 3 ELSE 5

\* parseInt(field, 10) of a sequence of digits
RECURSIVE parseInt(_)
parseInt(field) ==
    IF Len(field) = 1 THEN DigitValue(field[1])
    ELSE 10 * parseInt(SubSeq(field, 1, Len(field) - 1)) + DigitValue(field[Len(field)])

\* a parser that counts the deletions from the first field
numstatTotalsFromFirstField(lines) ==
    [additions |-> SumSeq([i \in DOMAIN lines |->
                     IF lines[i].add # <<"-">> THEN parseInt(lines[i].add) ELSE 0]),
     deletions |-> SumSeq([i \in DOMAIN lines |->
                     IF lines[i].add # <<"-">> THEN parseInt(lines[i].add) ELSE 0])]

\* if (add !== '-') additions += parseInt(add, 10);
\* if (del !== '-') deletions += parseInt(del, 10);
numstatTotals(lines) ==
    [additions |-> SumSeq([i \in DOMAIN lines |->
                     IF lines[i].add # <<"-">> THEN parseInt(lines[i].add) ELSE 0]),
     deletions |-> SumSeq([i \in DOMAIN lines |->
                     IF lines[i].del # <<"-">> THEN parseInt(lines[i].del) ELSE 0])]

CallGetStagedChanges ==
    /\ Pending("getStagedChanges")
    /\ Return(numstatTotals(call.args))

----------------------------------------------------------------------------

FnInit ==
    /\ NotMounted
    /\ app = NoApp
    /\ \/ \E a \in RangeArgs : call = Called("getVisibleRange", a)
       \/ \E d \in DiffInputs : call = Called("processDiffContent", d)
       \/ \E files \in ChangedFiles : call = Called("analyzeChangedFiles", files)
       \/ \E a \in GenerateArgs : call = Called("generateCommitMessage", a)
       \/ \E a \in [store : Stores, env : Envs] : call = Called("getConfig", a)
       \/ \E a \in [store : Stores, updates : Updates] : call = Called("setConfig", a)
       \/ \E lines \in StatInputs : call = Called("getStagedChanges", lines)

FnNext ==
    \/ CallGetVisibleRange
    \/ CallProcessDiffContent
    \/ CallAnalyzeChangedFiles
    \/ CallGenerateCommitMessage
    \/ CallGetConfig
    \/ CallSetConfig
    \/ CallGetStagedChanges

FnSpec == FnInit /\ [][FnNext]_vars

----------------------------------------------------------------------------
(* App and ConfigSetup on their own: what App renders, the settings wizard *)
(* and the settings store it writes.  A CommitFlow that App renders runs   *)
(* as in Spec from Init; here only which component is on screen and the    *)
(* settings behind it are followed.  The text of a TextInput is the state  *)
(* its onChange sets, and Enter submits that text.                         *)

ApiKeyTexts == {"", "sk-new"}
BaseUrlTexts == {"", "https://new.example/v1"}
ModelTexts == {"", "gpt-4o"}
Languages == {"en", "zh"}
MenuItems == {"api-key", "base-url", "model", "language", "done"}

\* ConfigSetup is not rendered
NoWizard == [step |-> "unmounted", apiKey |-> "", baseUrl |-> "", model |-> "",
             language |-> ""]

\* ConfigSetup mounts: existingConfig = getConfig(), the step and the four
\* fields from useState
MountConfigSetup(store, env) ==
    LET existingConfig == getConfig(store, env)
    IN  [step |-> IF hasValidConfig(store, env) THEN "menu" ELSE "api-key",
         apiKey |-> OrElse(existingConfig.apiKey, ""),
         baseUrl |-> OrElse(existingConfig.baseUrl, "https://api.openai.com/v1"),
         model |-> OrElse(existingConfig.model, "gpt-4o-mini"),
         language |-> OrElse(existingConfig.language, "en")]

\* render(<App config={options.config} />): useState(config || false), and
\* the first render
AppFirstRender(config, store, env) ==
    [screen |-> IF config THEN "ConfigSetup" ELSE "CommitFlow",
     config |-> config,
     effect |-> "pending",
     configDone |-> FALSE,
     wizard |-> IF config THEN MountConfigSetup(store, env) ELSE NoWizard,
     store |-> store,
     env |-> env]

AppInit ==
    /\ NotMounted
    /\ call = NoCall
    /\ \E config \in BOOLEAN, store \in Stores, env \in Envs :
          app = AppFirstRender(config, store, env)

AppOnly == UNCHANGED <<flowVars, call>>

\* const hasExistingConfig = hasValidConfig(), read at every render
hasExistingConfig == hasValidConfig(app.store, app.env)

\* useEffect(() => { if (!config && !hasValidConfig()) setShowConfig(true) })
AppEffect ==
    /\ app.effect = "pending"
    /\ app' = IF ~app.config /\ ~hasValidConfig(app.store, app.env)
              THEN [app EXCEPT !.effect = "run", !.screen = "ConfigSetup",
                               !.wizard = MountConfigSetup(app.store, app.env)]
              ELSE [app EXCEPT !.effect = "run"]
    /\ AppOnly

WizardAt(step) ==
    /\ app.effect = "run"
    /\ app.screen = "ConfigSetup"
    /\ app.wizard.step = step

\* handleConfigComplete: setConfigDone(true); setShowConfig(false), after
\* which App renders CommitFlow
handleConfigComplete(a) ==
    [a EXCEPT !.configDone = TRUE, !.screen = "CommitFlow", !.wizard = NoWizard]

handleMenuSelect(item) ==
    /\ WizardAt("menu")
    /\ app' = IF item = "done"
              THEN handleConfigComplete(app)
              ELSE [app EXCEPT !.wizard.step = item]
    /\ AppOnly

\* onChange={setApiKey}
ChangeApiKey(text) ==
    /\ WizardAt("api-key")
    /\ text # app.wizard.apiKey
    /\ app' = [app EXCEPT !.wizard.apiKey = text]
    /\ AppOnly

\* onChange={setBaseUrl}
ChangeBaseUrl(text) ==
    /\ WizardAt("base-url")
    /\ text # app.wizard.baseUrl
    /\ app' = [app EXCEPT !.wizard.baseUrl = text]
    /\ AppOnly

\* onChange={setModel}
ChangeModel(text) ==
    /\ WizardAt("model")
    /\ text # app.wizard.model
    /\ app' = [app EXCEPT !.wizard.model = text]
    /\ AppOnly

\* the four fields as a handler passes them to setConfig
WizardFields(w) ==
    [apiKey |-> w.apiKey, baseUrl |-> w.baseUrl, model |-> w.model,
     language |-> w.language]

\* setConfig({...}); onComplete()
SaveAndComplete(fields) ==
    handleConfigComplete([app EXCEPT !.store = setConfig(app.store, fields)])

handleApiKeySubmit ==
    /\ WizardAt("api-key")
    /\ app' = IF hasExistingConfig
              THEN SaveAndComplete(WizardFields(app.wizard))
              ELSE [app EXCEPT !.wizard.step = "base-url"]
    /\ AppOnly

handleBaseUrlSubmit ==
    /\ WizardAt("base-url")
    /\ LET newBaseUrl == OrElse(app.wizard.baseUrl, "https://api.openai.com/v1")
       IN  app' = IF hasExistingConfig
                  THEN SaveAndComplete(
                          [WizardFields(app.wizard) EXCEPT !.baseUrl = newBaseUrl])
                  ELSE [app EXCEPT !.wizard.baseUrl = newBaseUrl,
                                   !.wizard.step = "model"]
    /\ AppOnly

handleModelSubmit ==
    /\ WizardAt("model")
    /\ LET newModel == OrElse(app.wizard.model, "gpt-4o-mini")
       IN  app' = IF hasExistingConfig
                  THEN SaveAndComplete(
                          [WizardFields(app.wizard) EXCEPT !.model = newModel])
                  ELSE [app EXCEPT !.wizard.model = newModel,
                                   !.wizard.step = "language"]
    /\ AppOnly

handleLanguageSelect(item) ==
    /\ WizardAt("language")
    /\ app' = SaveAndComplete([WizardFields(app.wizard) EXCEPT !.language = item])
    /\ AppOnly

AppNext ==
    \/ AppEffect
    \/ \E item \in MenuItems : handleMenuSelect(item)
    \/ \E text \in ApiKeyTexts : ChangeApiKey(text)
    \/ \E text \in BaseUrlTexts : ChangeBaseUrl(text)
    \/ \E text \in ModelTexts : ChangeModel(text)
    \/ handleApiKeySubmit
    \/ handleBaseUrlSubmit
    \/ handleModelSubmit
    \/ \E item \in Languages : handleLanguageSelect(item)

AppSpec == AppInit /\ [][AppNext]_vars


----------------------------------------------------------------------------
(* Properties of the flow *)

ForFiles == "generateCommitMessageForFiles"

EntryStaged == StagedOf(entryRepo)

EntryUnstaged == ModifiedOf(entryRepo) \cup UntrackedOf(entryRepo)

\* the step just taken ended a file-selection generation attempt: its model
\* call returned (review) or its cleanup ran (error)
GenerationEnded ==
    /\ lastEvent.h = ForFiles
    /\ \/ lastEvent.fn = "ai.generateCommitMessage" /\ lastEvent.kind = "ok"
       \/ lastEvent.fn = "cleanup"

\* C1: once a file-selection generation attempt has ended, whatever the
\* outcome of its backend calls, the staging area is what it was when the
\* attempt started.
C1_StagingAreaRestored ==
    GenerationEnded => StagedOf(repo) = lastEvent.idx0

\* C2: a failing step of file-selection generation leaves an unstage pending
\* in the cleanup path, and when the cleanup has run, failed or not, the flow
\* is in 'error' showing the message of the failure first caught.
C2_CleanupFailureSwallowed ==
    /\ (lastEvent.h = ForFiles /\ lastEvent.kind = "fail" /\ lastEvent.fn # "cleanup")
         => \E i \in DOMAIN tasks :
                /\ tasks[i].h = ForFiles
                /\ tasks[i].pc = "cleanup"
                /\ tasks[i].orig = lastEvent.orig
    /\ (lastEvent.h = ForFiles /\ lastEvent.fn = "cleanup")
         => /\ stage = "error"
            /\ error = lastEvent.orig
            /\ error # ""

C2_Witness ==
    /\ lastEvent.h = ForFiles
    /\ lastEvent.fn = "cleanup"
    /\ lastEvent.kind = "fail"
    /\ stage = "error"
    /\ error = "Failed to stage files"

\* C3: the flow is in 'no-changes' only when every query of the initial
\* check succeeded and nothing is staged, modified or untracked.
C3_NoChangesOnlyWhenClean ==
    stage = "no-changes" =>
        /\ lastEvent.kind # "fail"
        /\ StagedOf(repo) = {}
        /\ ModifiedOf(repo) = {}
        /\ UntrackedOf(repo) = {}

\* C4: a backend call that has just failed leaves the flow in 'error' with a
\* message (or, in file-selection generation, on its way there through the
\* cleanup).
C4_FailureLeadsToError ==
    lastEvent.kind = "fail" =>
        \/ stage = "error" /\ error # ""
        \/ /\ lastEvent.h = ForFiles
           /\ \E i \in DOMAIN tasks : tasks[i].h = ForFiles /\ tasks[i].pc = "cleanup"

\* C5: once the flow is in 'error' the stage stays 'error' and no further
\* backend call is issued; only the exit of the process follows.
C5_ErrorIsTerminal ==
    [][stage = "error" => (stage' = "error" /\ Len(tasks') <= Len(tasks))]_vars

\* C6: at most one backend call is in flight at any time.
C6_OneCallInFlight ==
    Len(tasks) <= 1

\* C7: entered with staged changes and with unstaged or untracked ones, the
\* flow leaves 'checking' for 'staged-reset' (for 'error' or 'no-changes'
\* only when a query failed), and it is past 'staged-reset' only after the
\* operator chose: generation from the staged set after 'continue', the
\* picker after 'reset'.
C7_AsksBeforeGenerating ==
    (EntryStaged # {} /\ EntryUnstaged # {}) =>
        /\ srChoices = {} =>
              /\ stage \in {"checking", "staged-reset", "error", "no-changes"}
              /\ stage \in {"error", "no-changes"} => lastEvent.kind = "fail"
        /\ stage = "file-select" => "reset" \in srChoices
        /\ \A i \in DOMAIN tasks :
              /\ tasks[i].h = "generateCommitMessage" => "continue" \in srChoices
              /\ tasks[i].h = ForFiles => "reset" \in srChoices

C7_Witness ==
    /\ EntryStaged # {}
    /\ EntryUnstaged # {}
    /\ stage = "generating"
    /\ srChoices = {"continue"}

\* C8: entered with staged changes only, the flow is never in 'file-select'
\* or 'staged-reset', it leaves 'checking' for 'generating' (for 'error' or
\* 'no-changes' only when a query failed), and every generation, the first
\* and the regenerated ones, is given the staged change set.
C8_StagedOnlyGoesStraightToGeneration ==
    (EntryStaged # {} /\ EntryUnstaged = {}) =>
        /\ stage \notin {"file-select", "staged-reset"}
        /\ stage = "no-changes" => lastEvent.kind = "fail"
        /\ (lastEvent.h = "checkRepository" /\ lastEvent.fn = "getAllUnstagedFiles"
              /\ lastEvent.kind = "ok") => stage = "generating"
        /\ diff \in {NoDiff, EntryStaged}
        /\ \A i \in DOMAIN tasks :
              /\ tasks[i].h # ForFiles
              /\ tasks[i].h = "generateCommitMessage" => tasks[i].d = EntryStaged

C8_Witness ==
    /\ EntryStaged # {}
    /\ EntryUnstaged = {}
    /\ stage = "review"
    /\ diff = EntryStaged
    /\ lastEvent.via = "regenerate"

C10_RegenerateKeepsSelection ==
    [][(\E i \in DOMAIN tasks : tasks[i].via = "regenerate") =>
            /\ stage' \in {"generating", "review", "error"}
            /\ selectedFilesList' = selectedFilesList]_vars


----------------------------------------------------------------------------
(* Properties of the picker *)

\* C12: while the picker is shown the cursor is an index of the listed
\* paths (0 <= cursor < number of listed paths), whatever keys were pressed.
C12_CursorIsValidIndex ==
    PickerMounted => (0 <= selectedIndex /\ selectedIndex < Len(allFiles))

\* C13: return with nothing checked changes nothing (the picker stays as it
\* is, the flow stays in 'file-select', no handler starts); return with
\* something checked hands exactly the checked paths to handleFileSelection.
C13_ConfirmEmitsSelection ==
    [][(PickerMounted /\ lastEvent'.fn = "picker:return") =>
          IF selectedFiles = {}
          THEN UNCHANGED <<uiVars, pickerVars, tasks, repo, exited>>
          ELSE /\ selectedFilesList' = selectedFiles
               /\ Len(tasks') = Len(tasks) + 1
               /\ tasks'[Len(tasks')].h = ForFiles
               /\ tasks'[Len(tasks')].files = selectedFiles]_vars

C13_Witness ==
    /\ stage = "file-select"
    /\ availableFiles.modified # {}
    /\ selectedFiles = {}
    /\ lastEvent.fn = "picker:return"


----------------------------------------------------------------------------
(* Properties of the functions *)

\* C11: for every list of N items, every M >= 1 rows and every cursor with
\* 0 <= cursor < N, the window [start, end) of getVisibleRange has
\* start <= cursor < end, end - start <= M, 0 <= start and end <= N.
C11_WindowHoldsCursor ==
    Returned("getVisibleRange") =>
        LET a == call.args
            r == call.ret
        IN  /\ r.start <= a.selectedIndex
            /\ a.selectedIndex < r.end
            /\ r.end - r.start <= a.maxVisible
            /\ 0 <= r.start
            /\ r.end <= a.totalFiles

\* the cursor is near the end of a list longer than the window: the window
\* is clamped to the end and its start is moved back
C11_Witness ==
    /\ Returned("getVisibleRange")
    /\ call.args.totalFiles > call.args.maxVisible
    /\ call.ret.end = call.args.totalFiles
    /\ call.ret.start > 0
    /\ call.ret.start < call.args.selectedIndex - (call.args.maxVisible \div 2)
    /\ call.ret.end - call.ret.start = call.args.maxVisible


\* the characters of the raw diff: its sections, one after the other
RawLen(d) == SumSeq([i \in DOMAIN d |-> SectionLen(d, i)])

\* every section whole, in order
KeptWhole(d, content) ==
    /\ Len(content.parts) = Len(d)
    /\ \A i \in DOMAIN d :
        /\ content.parts[i].section = i
        /\ content.parts[i].form = "lines"
        /\ content.parts[i].lines = SplitCount(d, i)
        /\ content.parts[i].len = SectionLen(d, i)
    /\ ~content.cut

C15_ContentWithinHardCutoff ==
    Returned("processDiffContent") =>
        call.ret.content.len <= MAX_TOKENS * CharsPerToken

\* the summaries are still over the budget and the content is cut
C15_Witness ==
    /\ Returned("processDiffContent")
    /\ call.ret.content.cut
    /\ call.ret.content.len = MAX_TOKENS * CharsPerToken
    /\ Joined(call.ret.content.parts, 2) > MAX_TOKENS * CharsPerToken


\* the names of the categories a classification lists
CategoryNames(r) == {r.categories[i].name : i \in DOMAIN r.categories}

\* C16: no changed path is listed in the file lists of two categories.
C16_OneCategoryPerPath ==
    Returned("analyzeChangedFiles") =>
        \A f \in call.args :
            Cardinality({i \in DOMAIN call.ret.categories :
                            f \in call.ret.categories[i].files}) <= 1

\* C17: the suggested type is 'test', 'docs', 'chore', 'style' or 'ci' only
\* when every classified path is in that one category, and a change set
\* that spans two or more categories is given 'feat'.
C17_TypeOnlyWhenHomogeneous ==
    Returned("analyzeChangedFiles") =>
        LET names == CategoryNames(call.ret)
            type == call.ret.suggestedType
        IN  /\ type = "test" => names = {"Tests"}
            /\ type = "docs" => names = {"Documentation"}
            /\ type = "chore" => names = {"Configuration"}
            /\ type = "style" => names = {"Styles"}
            /\ type = "ci" => names = {"Build/Deploy"}
            /\ Cardinality(names) >= 2 => type = "feat"


\* C18: with no credential in the settings store and none in the
\* environment, generate throws the configuration error, having built no
\* prompt and sent no request.
C18_NoCredentialNoRequest ==
    (Returned("generateCommitMessage")
        /\ Falsy(call.args.store.apiKey)
        /\ Falsy(call.args.env.OPENAI_API_KEY)) =>
        /\ call.ret.outcome = "throw"
        /\ call.ret.error = "OpenAI API key not configured. Please run with --config to set it up."
        /\ ~call.ret.promptBuilt
        /\ call.ret.requests = 0

\* the stored key is the empty string, the variable is not set, and the
\* backend would have answered
C18_Witness ==
    /\ Returned("generateCommitMessage")
    /\ call.args.store.apiKey = ""
    /\ call.args.env.OPENAI_API_KEY = NotSet
    /\ call.args.backend.kind = "text"
    /\ call.ret.outcome = "throw"
    /\ call.ret.requests = 0

\* the result section of a text: what stands between the first opening tag
\* that has a closing tag after it and the first closing tag after that one
HasResultSection(t) ==
    \E i, j \in DOMAIN t : i < j /\ t[i] = "<result>" /\ t[j] = "</result>"

FirstResultSection(t) ==
    LET i == CHOOSE x \in DOMAIN t :
                 /\ t[x] = "<result>"
                 /\ \E j \in DOMAIN t : x < j /\ t[j] = "</result>"
                 /\ \A y \in 1..(x - 1) :
                        ~(t[y] = "<result>" /\ \E j \in DOMAIN t : y < j /\ t[j] = "</result>")
        j == CHOOSE x \in DOMAIN t :
                 /\ i < x /\ t[x] = "</result>"
                 /\ \A y \in (i + 1)..(x - 1) : t[y] # "</result>"
    IN  SubSeq(t, i + 1, j - 1)

\* C19: when the backend was asked and answered a text that is not blank,
\* generate returns; the message is the trimmed first result section when
\* the text has one and the trimmed text otherwise, and the warnings are
\* those of processDiffContent, in their order.
C19_MessageIsResultSectionOrText ==
    (Returned("generateCommitMessage")
        /\ call.ret.requests = 1
        /\ call.args.backend.kind = "text"
        /\ Trim(call.args.backend.text) # <<>>) =>
        LET t == call.args.backend.text
        IN  /\ call.ret.outcome = "return"
            /\ call.ret.message = IF HasResultSection(t)
                                  THEN Trim(FirstResultSection(t))
                                  ELSE Trim(t)
            /\ call.ret.warnings = processDiffContent(call.args.diff).warnings

\* a text with a result section is answered for a diff that the per-file
\* cap has cut, so that a warning comes with the message
C19_Witness ==
    /\ Returned("generateCommitMessage")
    /\ HasResultSection(call.args.backend.text)
    /\ call.ret.outcome = "return"
    /\ call.ret.message = <<"a">>
    /\ call.ret.warnings # <<>>

\* C20: a generate that returns, returns a message that is not empty; when
\* the backend was asked and answered nothing, an empty or a blank text,
\* generate throws the generation error.
C20_ReturnedMessageNotEmpty ==
    Returned("generateCommitMessage") =>
        /\ call.ret.outcome = "return" => call.ret.message # <<>>
        /\ (call.ret.requests = 1
                /\ (call.args.backend.kind = "no content"
                        \/ (call.args.backend.kind = "text"
                                /\ Trim(call.args.backend.text) = <<>>))) =>
              /\ call.ret.outcome = "throw"
              /\ call.ret.error = "OpenAI API error: Failed to generate commit message"


\* C21: the endpoint loaded is the value of OPENAI_BASE_URL when the
\* operator has stored none and the variable is set, the credential loaded
\* is the value of OPENAI_API_KEY when none is stored and the variable is
\* set, and a stored value wins over the variable.
C21_StoredThenEnvironmentThenDefault ==
    Returned("getConfig") =>
        LET store == call.args.store
            env == call.args.env
        IN  /\ (store.baseUrl = NotSet /\ ~Falsy(env.OPENAI_BASE_URL)) =>
                  call.ret.baseUrl = env.OPENAI_BASE_URL
            /\ (store.apiKey = NotSet /\ ~Falsy(env.OPENAI_API_KEY)) =>
                  call.ret.apiKey = env.OPENAI_API_KEY
            /\ ~Falsy(store.baseUrl) => call.ret.baseUrl = store.baseUrl
            /\ ~Falsy(store.apiKey) => call.ret.apiKey = store.apiKey

\* C22: after an update every field present in the partial settings holds
\* the value given, the empty string included, and is what the store then
\* answers for it; every absent field holds what it held.
C22_UpdatePersistsPresentFields ==
    Returned("setConfig") =>
        \A key \in ConfigKeys :
            IF call.args.updates[key] # NotSet
            THEN /\ call.ret[key] = call.args.updates[key]
                 /\ ConfGet(call.ret, key) = call.args.updates[key]
            ELSE call.ret[key] = call.args.store[key]


\* the number a decimal field writes, 0 for the field '-'
RECURSIVE Written(_)
Written(field) ==
    IF field = <<"-">> \/ field = <<>> THEN 0
    ELSE IF Head(field) = "3"
         THEN 3 * 10 ^ (Len(field) - 1) + Written(Tail(field))
         ELSE 5 * 10 ^ (Len(field) - 1) + Written(Tail(field))

RECURSIVE Total(_, _)
Total(lines, column) ==
    IF lines = <<>> THEN 0
    ELSE Written(Head(lines)[column]) + Total(Tail(lines), column)

\* C23: the totals are the sums of the numbers written in the additions and
\* in the deletions fields, a field '-' counting 0 while the other field of
\* its line is counted; both are non-negative.
C23_SentinelCountsZero ==
    Returned("getStagedChanges") =>
        /\ call.ret.additions = Total(call.args, "add")
        /\ call.ret.deletions = Total(call.args, "del")
        /\ call.ret.additions >= 0
        /\ call.ret.deletions >= 0

\* the lines '-<TAB>5' and '3<TAB>-' give 3 additions and 5 deletions
C23_Witness ==
    /\ Returned("getStagedChanges")
    /\ call.args = <<[add |-> <<"-">>, del |-> <<"5">>], [add |-> <<"3">>, del |-> <<"-">>]>>
    /\ call.ret = [additions |-> 3, deletions |-> 5]

\* the kinds of the warnings, in the order recorded
WarningKinds(r) == [i \in DOMAIN r.warnings |-> r.warnings[i].kind]

\* the sections over the per-file cap, in the order of the diff
RECURSIVE OverCap(_, _)
OverCap(d, from) ==
    IF from > Len(d) THEN <<>>
    ELSE (IF SplitCount(d, from) > MAX_LINES_PER_FILE THEN <<from>> ELSE <<>>)
            \o OverCap(d, from + 1)

\* C25: the warnings are, in this order, one per section over the per-file
\* cap (in the order of the sections), then the compression warning exactly
\* when the capped text is over the budget, then the cutoff warning exactly
\* when the summaries are over the budget too; with the compression warning
\* every section is its summary of at most 5 header lines and 20 diff lines,
\* without it no section is; the content is cut only with the cutoff warning.
C25_TiersInOrder ==
    Returned("processDiffContent") =>
        LET d == call.args
            r == call.ret
            over == OverCap(d, 1)
            files == SubSeq(r.warnings, 1, Len(over))
            rest == SubSeq(WarningKinds(r), Len(over) + 1, Len(r.warnings))
            tier1 == SumSeq([i \in DOMAIN d |->
                        IF SplitCount(d, i) > MAX_LINES_PER_FILE
                        THEN TextLen(d[i], MAX_LINES_PER_FILE)
                        ELSE SectionLen(d, i)]) + (IF Len(d) = 0 THEN 0 ELSE Len(d) - 1)
            tier2 == SumSeq([i \in DOMAIN r.content.parts |-> r.content.parts[i].len])
                        + (IF Len(d) = 0 THEN 0 ELSE 2 * (Len(d) - 1))
            compressed == tier1 > MAX_TOKENS * CharsPerToken
        IN  /\ Len(r.warnings) >= Len(over)
            /\ files = [i \in DOMAIN over |-> [kind |-> "file", section |-> over[i]]]
            /\ rest \in {<<>>, <<"compress">>, <<"compress", "cutoff">>}
            /\ compressed <=> (rest # <<>>)
            /\ \A i \in DOMAIN r.content.parts :
                IF compressed
                THEN /\ r.content.parts[i].form = "summary"
                     /\ r.content.parts[i].lines
                            <= 1 + HeaderLinesKept + FALLBACK_LINES_PER_FILE + 1
                ELSE r.content.parts[i].form = "lines"
            /\ (compressed /\ tier2 > MAX_TOKENS * CharsPerToken) <=> (Len(rest) = 2)
            /\ r.content.cut <=> (Len(rest) = 2)

\* all three tiers fire: a section over the cap whose summary, too, is over
\* the budget
C25_Witness ==
    /\ Returned("processDiffContent")
    /\ WarningKinds(call.ret) = <<"file", "compress", "cutoff">>
    /\ call.ret.content.cut


----------------------------------------------------------------------------
(* Further properties of the flow and of the picker *)

\* C24: entered with nothing staged and with unstaged or untracked changes,
\* the flow starts a generation only from the 'stage-prompt' screen (or, once
\* a message was shown, from 'review' by regenerate).
C24_AsksToStageAll ==
    [][(EntryStaged = {} /\ EntryUnstaged # {}
            /\ stage # "generating" /\ stage' = "generating")
         => stage \in {"stage-prompt", "review"}]_vars

CommitHandlers == {"handleCommitChoice", "handleCustomMessageSubmit"}

\* C26: a commit handler is started only in 'review', for the selected file
\* list and the generated or the edited message; its staging step stages
\* nothing but that list, its commit step follows in the same handler; and a
\* blank edited message starts no call and leaves the stage as it is.
C26_CommitOnlyFromReview ==
    [][/\ (Len(tasks') > Len(tasks) /\ tasks'[Len(tasks')].h \in CommitHandlers) =>
            /\ stage = "review"
            /\ tasks'[Len(tasks')].files = selectedFilesList
            /\ tasks'[Len(tasks')].msg \in {commitMessage, customMessage}
       /\ (lastEvent'.h \in CommitHandlers /\ lastEvent'.fn = "stageFiles"
              /\ lastEvent'.kind = "ok") =>
            /\ StagedOf(repo') \ StagedOf(repo) \subseteq selectedFilesList
            /\ \E i \in DOMAIN tasks' :
                  tasks'[i].h = lastEvent'.h /\ tasks'[i].pc = "commit"
       /\ commits' > commits =>
            /\ lastEvent'.h \in CommitHandlers
            /\ lastEvent'.fn = "commit"
       /\ (EditBoxMounted /\ IsBlank(customMessage)
              /\ lastEvent'.fn \in {"edit:submit", "edit:submit-blank"}) =>
            /\ stage' = stage
            /\ tasks' = tasks
            /\ repo' = repo]_vars

\* C27: when the reset chosen in 'staged-reset' has run, nothing is staged
\* and the picker lists the modified and untracked paths of the repository
\* as it is after the reset, the formerly staged paths among them.
C27_PickerListRecomputedAfterReset ==
    (lastEvent.h = "handleStagedResetChoice" /\ lastEvent.fn = "resetStagedFiles"
        /\ lastEvent.kind = "ok") =>
        /\ StagedOf(repo) = {}
        /\ stage = "file-select"
        /\ availableFiles = getAllUnstagedFiles(repo)
        /\ EntryStaged \subseteq availableFiles.modified \cup availableFiles.untracked

\* C28: the paths checked in the picker are paths of the modified and
\* untracked lists it was given, and they are no more than the total shown.
C28_SelectionWithinGivenFiles ==
    /\ selectedFiles \subseteq availableFiles.modified \cup availableFiles.untracked
    /\ Cardinality(selectedFiles)
          <= Cardinality(availableFiles.modified) + Cardinality(availableFiles.untracked)

\* C29: a run creates at most one commit, and once the flow is in 'done' the
\* stage stays 'done' and no handler is started or moved.
C29_AtMostOneCommit ==
    [][/\ commits' <= 1
       /\ stage = "done" => (stage' = "done" /\ tasks' = tasks)]_vars


----------------------------------------------------------------------------
(* Properties of App and ConfigSetup *)

\* C30: once App has settled what to show, CommitFlow is on screen only with
\* a credential that getConfig resolves to a non-empty key: without one the
\* wizard is shown, and the flow that follows the wizard has one whatever
\* was entered in the wizard.
C30_FlowStartsWithCredential ==
    (app.screen = "CommitFlow" /\ app.effect = "run") =>
        ~Falsy(getConfig(app.store, app.env).apiKey)

=============================================================================
